---- MODULE Spec2Model ----
(***************************************************************************)
(* The SimplePns name registry contract (src/src/lib.rs) as a state        *)
(* machine.  The host runs one invocation at a time to completion, so      *)
(* every external message is one atomic action.  Storage HashMaps are      *)
(* partial functions; an Option<T> is <<>> (None) or <<v>> (Some(v)).      *)
(***************************************************************************)
EXTENDS Integers, Sequences, FiniteSets, TLC

\* ---------------------------------------------------------------- bounds
\* Cap on the length of the event log (one event per successful call).
MaxEvents == 3

\* ----------------------------------------------------------------- types
\* AccountId::from([0x0; 32]), the value deploy stores as default_address
ZeroAccount == 0
\* AccountId::from([0x1; 32]) and AccountId::from([0x2; 32]) of the tests
alice == 1
bob == 2

AccountId == {ZeroAccount, alice, bob}
Hash == {1, 2}
\* pub type Text = Vec<u8>
Text == {<<>>, <<1>>}

\* The inputs of the registry specification: one name, every caller, address
\* and transfer target, one code hash and one abi.
Names == {1}
CodeHashes == {1}
Abis == {<<1>>}

\* Option<T>
None == <<>>
Some(v) == <<v>>

VARIABLES
    name_to_address,            \* storage::HashMap<Hash, AccountId>
    name_to_owner,              \* storage::HashMap<Hash, AccountId>
    name_to_abi,                \* storage::HashMap<Hash, Text>
    code_hash_to_abi,           \* storage::HashMap<Hash, Text>
    account_to_code_hash_list,  \* storage::HashMap<AccountId, Vec<Hash>>
    default_address,            \* storage::Value<AccountId>
    events,                     \* the host's event log, written by env.emit
    call,                       \* the last invocation: message, caller, arguments, return value
    okCalls,                    \* history: number of mutating calls that returned true
    regOk,                      \* history: per name, number of register calls that returned true
    xfer                        \* history: per name, None or Some(<<A, B>>) for the last
                                \* successful transfer, made by A to B # A

vars == <<name_to_address, name_to_owner, name_to_abi, code_hash_to_abi,
          account_to_code_hash_list, default_address, events, call, okCalls, regOk, xfer>>

storage == <<name_to_address, name_to_owner, name_to_abi, code_hash_to_abi,
             account_to_code_hash_list, default_address>>

\* ------------------------------------------------------- storage::HashMap
\* HashMap::get
get(m, k) == IF k \in DOMAIN m THEN Some(m[k]) ELSE None

\* mutant: insert that keeps the entry a key already has (entry().or_insert)
insert_if_absent(m, k, v) ==
    [x \in DOMAIN m \cup {k} |-> IF x \in DOMAIN m THEN m[x] ELSE v]

\* mutant: the map is rebuilt from the new entry alone
insert_drops_others(m, k, v) == [x \in {k} |-> v]

\* HashMap::insert: the map afterwards (the call returns get(m, k))
insert(m, k, v) == [x \in DOMAIN m \cup {k} |-> IF x = k THEN v ELSE m[x]]

\* Option::unwrap_or
unwrap_or(o, d) == IF o = None THEN d ELSE o[1]

\* -------------------------------------------------------- private methods
\* mutant: the address looked up in the owner map
get_address_from_owner_map(name) == unwrap_or(get(name_to_owner, name), default_address)

get_address_or_none(name) == unwrap_or(get(name_to_address, name), default_address)

\* mutant: the owner lookup always falls back to the default address
get_owner_always_default(name) == default_address

get_owner_or_none(name) == unwrap_or(get(name_to_owner, name), default_address)

\* mutant: existence decided by the address map
is_name_exist_by_address(name) == get(name_to_address, name) # None

\* mutant: no name is ever found
is_name_exist_never(name) == FALSE

\* mutant: an owner equal to the default address counts as no owner
is_name_exist_nonzero_owner(name) ==
    unwrap_or(get(name_to_owner, name), default_address) # default_address

is_name_exist_impl(name) == get(name_to_owner, name) # None

\* ------------------------------------------------------------ pure reads
get_address(name) == get_address_or_none(name)

is_name_exist(name) == is_name_exist_impl(name)

get_abi_by_name(name) == unwrap_or(get(name_to_abi, name), <<>>)

get_abi_by_code_hash(code_hash) == unwrap_or(get(code_hash_to_abi, code_hash), <<>>)

get_code_hash_list_by_account(account) ==
    unwrap_or(get(account_to_code_hash_list, account), <<>>)

\* ------------------------------------------------------------------ host
\* mutant: the event is dropped
emit_nothing(e) == events' = events

\* env.emit
emit(e) == events' = Append(events, e)

\* The record of an invocation and of what it returned.
returns(op, caller, name, args, ret) ==
    /\ call' = [op |-> op, caller |-> caller, name |-> name, args |-> args, ret |-> ret]
    /\ okCalls' = IF ret THEN okCalls + 1 ELSE okCalls
    /\ regOk' = IF ret /\ op = "register" THEN [regOk EXCEPT ![name] = @ + 1] ELSE regOk

\* ---------------------------------------------------------------- deploy
Init ==
    /\ name_to_address = <<>>
    /\ name_to_owner = <<>>
    /\ name_to_abi = <<>>
    /\ code_hash_to_abi = <<>>
    /\ account_to_code_hash_list = <<>>
    /\ default_address = ZeroAccount
    /\ events = <<>>
    /\ call = [op |-> "deploy", caller |-> ZeroAccount, name |-> 1, args |-> <<>>, ret |-> FALSE]
    /\ okCalls = 0
    /\ regOk = [n \in Hash |-> 0]
    /\ xfer = [n \in Hash |-> None]

\* -------------------------------------------------------------- messages
\* mutant: the caller is stored as the address
register_address_is_caller(caller, name, address) ==
    IF is_name_exist_impl(name)
    THEN /\ returns("register", caller, name, <<address>>, FALSE)
         /\ UNCHANGED <<storage, events, xfer>>
    ELSE /\ Len(events) < MaxEvents
         /\ name_to_owner' = insert(name_to_owner, name, caller)
         /\ name_to_address' = insert(name_to_address, name, caller)
         /\ emit([kind |-> "Register", name |-> name, from |-> caller])
         /\ returns("register", caller, name, <<address>>, TRUE)
         /\ UNCHANGED <<name_to_abi, code_hash_to_abi, account_to_code_hash_list,
                        default_address, xfer>>

\* mutant: register leaves the address to a later set_address
register_without_address(caller, name, address) ==
    IF is_name_exist_impl(name)
    THEN /\ returns("register", caller, name, <<address>>, FALSE)
         /\ UNCHANGED <<storage, events, xfer>>
    ELSE /\ Len(events) < MaxEvents
         /\ name_to_owner' = insert(name_to_owner, name, caller)
         /\ emit([kind |-> "Register", name |-> name, from |-> caller])
         /\ returns("register", caller, name, <<address>>, TRUE)
         /\ UNCHANGED <<name_to_address, name_to_abi, code_hash_to_abi,
                        account_to_code_hash_list, default_address, xfer>>

register(caller, name, address) ==
    IF is_name_exist_impl(name)
    THEN /\ returns("register", caller, name, <<address>>, FALSE)
         /\ UNCHANGED <<storage, events, xfer>>
    ELSE /\ Len(events) < MaxEvents
         /\ name_to_owner' = insert(name_to_owner, name, caller)
         /\ name_to_address' = insert(name_to_address, name, address)
         /\ emit([kind |-> "Register", name |-> name, from |-> caller])
         /\ returns("register", caller, name, <<address>>, TRUE)
         /\ UNCHANGED <<name_to_abi, code_hash_to_abi, account_to_code_hash_list,
                        default_address, xfer>>

\* mutant: the precondition looks for the name in the abi map
register_abi_checks_abi_map(caller, name, code_hash, abi) ==
    IF get(name_to_abi, name) # None
    THEN /\ returns("register_abi", caller, name, <<code_hash, abi>>, FALSE)
         /\ UNCHANGED <<storage, events, xfer>>
    ELSE /\ Len(events) < MaxEvents
         /\ name_to_abi' = insert(name_to_abi, name, abi)
         /\ code_hash_to_abi' = insert(code_hash_to_abi, code_hash, abi)
         /\ account_to_code_hash_list' =
                IF get(account_to_code_hash_list, caller) = None
                THEN insert(account_to_code_hash_list, caller, <<code_hash>>)
                ELSE [account_to_code_hash_list EXCEPT ![caller] = Append(@, code_hash)]
         /\ emit([kind |-> "RegisterAbi", from |-> caller, name |-> name,
                  code_hash |-> code_hash, abi |-> abi])
         /\ returns("register_abi", caller, name, <<code_hash, abi>>, TRUE)
         /\ UNCHANGED <<name_to_address, name_to_owner, default_address, xfer>>

\* mutant: register_abi also records the caller as the owner of the name
register_abi_claims_name(caller, name, code_hash, abi) ==
    IF is_name_exist_impl(name)
    THEN /\ returns("register_abi", caller, name, <<code_hash, abi>>, FALSE)
         /\ UNCHANGED <<storage, events, xfer>>
    ELSE /\ Len(events) < MaxEvents
         /\ name_to_owner' = insert(name_to_owner, name, caller)
         /\ name_to_abi' = insert(name_to_abi, name, abi)
         /\ code_hash_to_abi' = insert(code_hash_to_abi, code_hash, abi)
         /\ account_to_code_hash_list' =
                IF get(account_to_code_hash_list, caller) = None
                THEN insert(account_to_code_hash_list, caller, <<code_hash>>)
                ELSE [account_to_code_hash_list EXCEPT ![caller] = Append(@, code_hash)]
         /\ emit([kind |-> "RegisterAbi", from |-> caller, name |-> name,
                  code_hash |-> code_hash, abi |-> abi])
         /\ returns("register_abi", caller, name, <<code_hash, abi>>, TRUE)
         /\ UNCHANGED <<name_to_address, default_address, xfer>>

\* mutant: the caller's list is always replaced by a new one-element list
register_abi_replaces_list(caller, name, code_hash, abi) ==
    IF is_name_exist_impl(name)
    THEN /\ returns("register_abi", caller, name, <<code_hash, abi>>, FALSE)
         /\ UNCHANGED <<storage, events, xfer>>
    ELSE /\ Len(events) < MaxEvents
         /\ name_to_abi' = insert(name_to_abi, name, abi)
         /\ code_hash_to_abi' = insert(code_hash_to_abi, code_hash, abi)
         /\ account_to_code_hash_list' =
                insert(account_to_code_hash_list, caller, <<code_hash>>)
         /\ emit([kind |-> "RegisterAbi", from |-> caller, name |-> name,
                  code_hash |-> code_hash, abi |-> abi])
         /\ returns("register_abi", caller, name, <<code_hash, abi>>, TRUE)
         /\ UNCHANGED <<name_to_address, name_to_owner, default_address, xfer>>

register_abi(caller, name, code_hash, abi) ==
    IF is_name_exist_impl(name)
    THEN /\ returns("register_abi", caller, name, <<code_hash, abi>>, FALSE)
         /\ UNCHANGED <<storage, events, xfer>>
    ELSE /\ Len(events) < MaxEvents
         /\ name_to_abi' = insert(name_to_abi, name, abi)
         /\ code_hash_to_abi' = insert(code_hash_to_abi, code_hash, abi)
         /\ account_to_code_hash_list' =
                IF get(account_to_code_hash_list, caller) = None
                THEN insert(account_to_code_hash_list, caller, <<code_hash>>)
                ELSE [account_to_code_hash_list EXCEPT ![caller] = Append(@, code_hash)]
         /\ emit([kind |-> "RegisterAbi", from |-> caller, name |-> name,
                  code_hash |-> code_hash, abi |-> abi])
         /\ returns("register_abi", caller, name, <<code_hash, abi>>, TRUE)
         /\ UNCHANGED <<name_to_address, name_to_owner, default_address, xfer>>

\* mutant: the event's old_address is read after the insert
set_address_logs_new_as_old(caller, name, address) ==
    LET owner == get_owner_or_none(name) IN
    IF caller # owner
    THEN /\ returns("set_address", caller, name, <<address>>, FALSE)
         /\ UNCHANGED <<storage, events, xfer>>
    ELSE /\ Len(events) < MaxEvents
         /\ name_to_address' = insert(name_to_address, name, address)
         /\ emit([kind |-> "SetAddress", name |-> name, from |-> caller,
                  old_address |-> Some(address), new_address |-> address])
         /\ returns("set_address", caller, name, <<address>>, TRUE)
         /\ UNCHANGED <<name_to_owner, name_to_abi, code_hash_to_abi,
                        account_to_code_hash_list, default_address, xfer>>

set_address(caller, name, address) ==
    LET owner == get_owner_or_none(name) IN
    IF caller # owner
    THEN /\ returns("set_address", caller, name, <<address>>, FALSE)
         /\ UNCHANGED <<storage, events, xfer>>
    ELSE /\ Len(events) < MaxEvents
         /\ name_to_address' = insert(name_to_address, name, address)
         /\ emit([kind |-> "SetAddress", name |-> name, from |-> caller,
                  old_address |-> get(name_to_address, name), new_address |-> address])
         /\ returns("set_address", caller, name, <<address>>, TRUE)
         /\ UNCHANGED <<name_to_owner, name_to_abi, code_hash_to_abi,
                        account_to_code_hash_list, default_address, xfer>>

\* mutant: transfer without the ownership check
transfer_unchecked(caller, name, to) ==
    /\ Len(events) < MaxEvents
    /\ name_to_owner' = insert(name_to_owner, name, to)
    /\ emit([kind |-> "Transfer", name |-> name, from |-> caller,
             old_owner |-> get(name_to_owner, name), new_owner |-> to])
    /\ returns("transfer", caller, name, <<to>>, TRUE)
    /\ xfer' = [xfer EXCEPT ![name] = IF to # caller THEN Some(<<caller, to>>) ELSE None]
    /\ UNCHANGED <<name_to_address, name_to_abi, code_hash_to_abi,
                   account_to_code_hash_list, default_address>>

\* mutant: a transfer to the default address releases the name
transfer_zero_releases(caller, name, to) ==
    LET owner == get_owner_or_none(name) IN
    IF caller # owner
    THEN /\ returns("transfer", caller, name, <<to>>, FALSE)
         /\ UNCHANGED <<storage, events, xfer>>
    ELSE /\ Len(events) < MaxEvents
         /\ name_to_owner' =
                IF to = default_address
                THEN [x \in DOMAIN name_to_owner \ {name} |-> name_to_owner[x]]
                ELSE insert(name_to_owner, name, to)
         /\ emit([kind |-> "Transfer", name |-> name, from |-> caller,
                  old_owner |-> get(name_to_owner, name), new_owner |-> to])
         /\ returns("transfer", caller, name, <<to>>, TRUE)
         /\ xfer' = [xfer EXCEPT ![name] = IF to # caller THEN Some(<<caller, to>>) ELSE None]
         /\ UNCHANGED <<name_to_address, name_to_abi, code_hash_to_abi,
                        account_to_code_hash_list, default_address>>

transfer(caller, name, to) ==
    LET owner == get_owner_or_none(name) IN
    IF caller # owner
    THEN /\ returns("transfer", caller, name, <<to>>, FALSE)
         /\ UNCHANGED <<storage, events, xfer>>
    ELSE /\ Len(events) < MaxEvents
         /\ name_to_owner' = insert(name_to_owner, name, to)
         /\ emit([kind |-> "Transfer", name |-> name, from |-> caller,
                  old_owner |-> get(name_to_owner, name), new_owner |-> to])
         /\ returns("transfer", caller, name, <<to>>, TRUE)
         /\ xfer' = [xfer EXCEPT ![name] = IF to # caller THEN Some(<<caller, to>>) ELSE None]
         /\ UNCHANGED <<name_to_address, name_to_abi, code_hash_to_abi,
                        account_to_code_hash_list, default_address>>

\* The host dispatches one message at a time, from any caller.
Next ==
    \/ \E caller \in AccountId, name \in Names, address \in AccountId :
           register(caller, name, address)
    \/ \E caller \in AccountId, name \in Names, code_hash \in CodeHashes, abi \in Abis :
           register_abi(caller, name, code_hash, abi)
    \/ \E caller \in AccountId, name \in Names, address \in AccountId :
           set_address(caller, name, address)
    \/ \E caller \in AccountId, name \in Names, to \in AccountId :
           transfer(caller, name, to)

Spec == Init /\ [][Next]_vars

\* The same messages over two names, for what a call on one name does to
\* another: the default identity and alice call, with one address per message.
NextNames ==
    \/ \E caller \in {ZeroAccount, alice}, name \in Hash, address \in {bob} :
           register(caller, name, address)
    \/ \E caller \in {ZeroAccount, alice}, name \in Hash, code_hash \in CodeHashes, abi \in Abis :
           register_abi(caller, name, code_hash, abi)
    \/ \E caller \in {ZeroAccount, alice}, name \in Hash, address \in {alice} :
           set_address(caller, name, address)
    \/ \E caller \in {ZeroAccount, alice}, name \in Hash, to \in {bob} :
           transfer(caller, name, to)

SpecNames == Init /\ [][NextNames]_vars

\* The same messages with every code hash and abi text, for the ABI records:
\* one name, every caller, one address per message.
NextAbi ==
    \/ \E caller \in AccountId, name \in Names, address \in {alice} :
           register(caller, name, address)
    \/ \E caller \in AccountId, name \in Names, code_hash \in Hash, abi \in Text :
           register_abi(caller, name, code_hash, abi)
    \/ \E caller \in AccountId, name \in Names, address \in {bob} :
           set_address(caller, name, address)
    \/ \E caller \in AccountId, name \in Names, to \in {bob} :
           transfer(caller, name, to)

SpecAbi == Init /\ [][NextAbi]_vars

\* The same messages when the default identity never calls.
NextNoZero ==
    \/ \E caller \in {alice, bob}, name \in Names, address \in AccountId :
           register(caller, name, address)
    \/ \E caller \in {alice, bob}, name \in Names, code_hash \in CodeHashes, abi \in Abis :
           register_abi(caller, name, code_hash, abi)
    \/ \E caller \in {alice, bob}, name \in Names, address \in AccountId :
           set_address(caller, name, address)
    \/ \E caller \in {alice, bob}, name \in Names, to \in AccountId :
           transfer(caller, name, to)

SpecNoZero == Init /\ [][NextNoZero]_vars

\* ================================================================ claims
\* What the claims read of a state.
HasOwner(n) == n \in DOMAIN name_to_owner

OwnerEntry(n) == IF n \in DOMAIN name_to_owner THEN <<name_to_owner[n]>> ELSE <<>>

AddressEntry(n) == IF n \in DOMAIN name_to_address THEN <<name_to_address[n]>> ELSE <<>>

\* The owner of n, the default address standing for a missing entry.
OwnerOrDefault(n) == IF n \in DOMAIN name_to_owner THEN name_to_owner[n] ELSE ZeroAccount

\* A successful register of n lies strictly before the last event of the log.
RegisteredEarlier(n) ==
    \E i \in 1..(Len(events) - 1) : events[i].kind = "Register" /\ events[i].name = n

Maps == <<name_to_address, name_to_owner, name_to_abi, code_hash_to_abi,
          account_to_code_hash_list>>

\* C1: owner-only mutation.  In every step that changes the owner entry or
\* the address entry of a name that had an owner entry before the step, the
\* caller of the step is the owner stored for that name before the step.
C1_OwnerOnlyMutation ==
    [][\A n \in Hash :
          (HasOwner(n) /\ (OwnerEntry(n)' # OwnerEntry(n) \/ AddressEntry(n)' # AddressEntry(n)))
              => call'.caller = name_to_owner[n]]_vars

\* C1 witness: an owner who registered the name hands it to someone else.
C1_Witness ==
    /\ call.op = "transfer" /\ call.ret
    /\ call.caller # ZeroAccount /\ call.args[1] # call.caller
    /\ RegisteredEarlier(call.name)
    /\ name_to_owner[call.name] = call.args[1]

\* C2: first writer wins.  register on a name that has an owner entry, by any
\* caller and with any address, returns false and leaves the owner map, the
\* address map, the three ABI maps and the event log unchanged.
C2_RegisterRejected ==
    [][(call'.op = "register" /\ HasOwner(call'.name))
          => (call'.ret = FALSE /\ UNCHANGED <<Maps, events>>)]_vars

\* C2 witness: the registrant registers the same name a second time and is refused.
C2_Witness ==
    /\ call.op = "register" /\ ~call.ret
    /\ \E i \in 1..Len(events) :
          events[i].kind = "Register" /\ events[i].name = call.name
              /\ events[i].from = call.caller
    /\ name_to_owner[call.name] = call.caller

\* C3: ownership mismatch.  set_address and transfer by a caller that differs
\* from the current owner (the default address when there is no owner entry)
\* return false, change no storage map and emit no event; so both fail on a
\* name without an owner entry for every caller but the default identity.
C3_MismatchRejected ==
    [][(call'.op \in {"set_address", "transfer"})
          => /\ call'.caller # OwnerOrDefault(call'.name)
                   => (call'.ret = FALSE /\ UNCHANGED <<Maps, default_address, events>>)
             /\ (~HasOwner(call'.name) /\ call'.caller # ZeroAccount)
                   => (call'.ret = FALSE /\ UNCHANGED <<Maps, default_address, events>>)]_vars

\* C3 witness: a transfer of a name without an owner entry, by a real caller, fails.
C3_Witness ==
    /\ call.op = "transfer" /\ ~call.ret
    /\ call.caller # ZeroAccount
    /\ ~HasOwner(call.name)
    /\ events = <<>>

\* C4: ownership gating.  On a name with owner A, set_address(n, addr) by A
\* returns true and get_address(n) is addr right after it; by any other
\* caller it returns false and get_address(n) is what it was.
C4_OwnershipGating ==
    [][\A n \in Hash :
          (call'.op = "set_address" /\ call'.name = n /\ HasOwner(n))
              => IF call'.caller = name_to_owner[n]
                 THEN call'.ret = TRUE /\ get_address(n)' = call'.args[1]
                 ELSE call'.ret = FALSE /\ get_address(n)' = get_address(n)]_vars

\* C4 witness: the registrant replaces the address the name was registered with.
C4_Witness ==
    /\ call.op = "set_address" /\ call.ret
    /\ RegisteredEarlier(call.name)
    /\ call.caller = name_to_owner[call.name] /\ call.caller # ZeroAccount
    /\ events[Len(events)].old_address # <<call.args[1]>>
    /\ get_address(call.name) = call.args[1]

\* C5: transfer changes future gating.  After transfer(n, B) by A # B
\* returned true and until the next successful transfer of n, set_address and
\* transfer of n by A return false and set_address of n by B returns true; a
\* transfer that returns true was called by the owner before the call.
C5_TransferGating ==
    [][/\ \A n \in Hash :
             (xfer[n] # None /\ call'.name = n)
                 => LET A == xfer[n][1][1]
                        B == xfer[n][1][2]
                    IN  /\ (call'.op \in {"set_address", "transfer"} /\ call'.caller = A)
                              => call'.ret = FALSE
                        /\ (call'.op = "set_address" /\ call'.caller = B)
                              => call'.ret = TRUE
       /\ (call'.op = "transfer" /\ call'.ret)
             => call'.caller = OwnerOrDefault(call'.name)]_vars

\* C5 witness: A registers, transfers to B, and B sets the address.
C5_Witness ==
    /\ Len(events) = 3
    /\ events[1].kind = "Register" /\ events[2].kind = "Transfer"
    /\ events[3].kind = "SetAddress"
    /\ events[2].from = events[1].from /\ events[2].new_owner # events[2].from
    /\ events[3].from = events[2].new_owner
    /\ call.op = "set_address" /\ call.ret
    /\ xfer[call.name] = Some(<<events[1].from, call.caller>>)

\* C6: registration is permanent.  A name that has an owner entry has one in
\* every later state: no step removes an owner entry.
C6_RegistrationPermanent ==
    [][\A n \in Hash : HasOwner(n) => HasOwner(n)']_vars

\* C6 witness: a registered name is transferred to the default address and
\* still has its owner entry.
C6_Witness ==
    /\ call.op = "transfer" /\ call.ret
    /\ call.args[1] = ZeroAccount /\ call.caller # ZeroAccount
    /\ RegisteredEarlier(call.name)
    /\ HasOwner(call.name) /\ is_name_exist(call.name)

\* C7: only register creates a registration.  A name goes from no owner entry
\* to an owner entry only in a step that is a register of that name returning
\* true; set_address, transfer and register_abi never change whether a name
\* has an owner entry.
C7_OnlyRegisterCreates ==
    [][\A n \in Hash :
          (HasOwner(n)' # HasOwner(n))
              => (call'.op = "register" /\ call'.name = n /\ call'.ret = TRUE)]_vars

\* C8: unregistered reads default safely.  For every name for which no
\* register call has returned true, get_address returns the default address
\* and is_name_exist returns false.
C8_UnregisteredReadsDefault ==
    \A n \in Hash :
        regOk[n] = 0 => (get_address(n) = ZeroAccount /\ is_name_exist(n) = FALSE)

\* C9: no double registration.  At most one register call per name returns
\* true, the log holds at most one Register event per name, and a register
\* that returns true logs its caller as 'from' and stores it as the owner.
C9_NoDoubleRegistration ==
    /\ \A n \in Hash :
          /\ regOk[n] <= 1
          /\ Cardinality({i \in 1..Len(events) :
                             events[i].kind = "Register" /\ events[i].name = n}) <= 1
    /\ (call.op = "register" /\ call.ret)
          => /\ events # <<>>
             /\ events[Len(events)] =
                    [kind |-> "Register", name |-> call.name, from |-> call.caller]
             /\ OwnerEntry(call.name) = <<call.caller>>

\* C9 witness: after one caller registered the name, another caller's
\* register of it is refused.
C9_Witness ==
    /\ call.op = "register" /\ ~call.ret
    /\ regOk[call.name] = 1
    /\ \E i \in 1..Len(events) :
          events[i].kind = "Register" /\ events[i].name = call.name
              /\ events[i].from # call.caller
    /\ call.caller # ZeroAccount

\* The event kind of a message.
KindOf(op) ==
    CASE op = "register" -> "Register"
      [] op = "register_abi" -> "RegisterAbi"
      [] op = "set_address" -> "SetAddress"
      [] op = "transfer" -> "Transfer"

\* C10: one event per successful mutation.  A call that returns true appends
\* exactly one event, of the kind of the message, to the log and a call that
\* returns false appends none; the log is as long as the number of calls
\* that returned true.
C10_OneEventPerSuccess ==
    /\ [](Len(events) = okCalls)
    /\ [][IF call'.ret
          THEN /\ Len(events') = Len(events) + 1
               /\ SubSeq(events', 1, Len(events)) = events
               /\ events'[Len(events')].kind = KindOf(call'.op)
          ELSE events' = events]_vars

\* C10 witness: three calls returned true (a register_abi, a register and a
\* set_address) and the log holds their three events in that order.
C10_Witness ==
    /\ okCalls = 3 /\ Len(events) = 3
    /\ call.op = "set_address" /\ call.ret
    /\ events[1].kind = "RegisterAbi" /\ events[2].kind = "Register"
    /\ events[3].kind = "SetAddress"

\* The last event of the log.
LastEvent == events[Len(events)]

\* C11: event contents.  An emitted event carries the name argument and
\* from = the caller; a SetAddress event has new_address = the address
\* argument and old_address = the address entry before the call (absent if
\* there was none); a Transfer event has new_owner = the 'to' argument and
\* old_owner = the owner entry before the call.
C11_EventContents ==
    [][\A n \in Hash :
          (call'.ret /\ call'.name = n)
              => /\ Len(events') = Len(events) + 1
                 /\ LastEvent'.name = n
                 /\ LastEvent'.from = call'.caller
                 /\ call'.op = "set_address"
                       => /\ LastEvent'.kind = "SetAddress"
                          /\ LastEvent'.new_address = call'.args[1]
                          /\ LastEvent'.old_address = AddressEntry(n)
                 /\ call'.op = "transfer"
                       => /\ LastEvent'.kind = "Transfer"
                          /\ LastEvent'.new_owner = call'.args[1]
                          /\ LastEvent'.old_owner = OwnerEntry(n)]_vars

\* C11 witness: the owner replaces the address stored at registration by
\* another one, and the event carries the old and the new address.
C11_Witness ==
    /\ Len(events) = 2
    /\ events[1].kind = "Register" /\ events[1].from = alice
    /\ call.op = "set_address" /\ call.ret /\ call.caller = alice
    /\ LastEvent.kind = "SetAddress"
    /\ LastEvent.old_address = Some(alice) /\ LastEvent.new_address = bob

\* C12: register success effect.  register(n, addr) by c on a name without an
\* owner entry returns true; afterwards the owner of n is c and the address
\* of n is addr, is_name_exist(n) is true and get_address(n) returns addr,
\* and no other name's owner or address entry has changed.
C12_RegisterEffect ==
    [][\A n \in Hash :
          (call'.op = "register" /\ call'.name = n /\ ~HasOwner(n))
              => /\ call'.ret = TRUE
                 /\ OwnerEntry(n)' = <<call'.caller>>
                 /\ AddressEntry(n)' = <<call'.args[1]>>
                 /\ is_name_exist(n)' = TRUE
                 /\ get_address(n)' = call'.args[1]
                 /\ \A m \in Hash \ {n} :
                       /\ OwnerEntry(m)' = OwnerEntry(m)
                       /\ AddressEntry(m)' = AddressEntry(m)]_vars

\* C12 witness: alice registers a second name with bob's address while the
\* first name keeps its own registration.
C12_Witness ==
    /\ Len(events) = 2
    /\ events[1].kind = "Register" /\ events[2].kind = "Register"
    /\ events[1].name # events[2].name
    /\ call.op = "register" /\ call.ret /\ call.caller = alice
    /\ name_to_owner[call.name] = alice /\ name_to_address[call.name] = bob
    /\ get_address(call.name) = bob /\ is_name_exist(call.name)
    /\ \A m \in Hash : HasOwner(m)

\* The code-hash list stored for an account, empty when there is no entry.
ListEntry(a) ==
    IF a \in DOMAIN account_to_code_hash_list THEN account_to_code_hash_list[a] ELSE <<>>

\* C13: register_abi precondition.  register_abi(n, h, abi) returns false,
\* changing no map and emitting no event, exactly when n has an owner entry;
\* otherwise it returns true, stores abi under the name key n and under the
\* code-hash key h, and appends h to the caller's code-hash list, creating
\* the list if the caller had none.
C13_RegisterAbiPrecondition ==
    [][\A n \in Hash :
          (call'.op = "register_abi" /\ call'.name = n)
              => IF HasOwner(n)
                 THEN call'.ret = FALSE /\ UNCHANGED <<Maps, events>>
                 ELSE /\ call'.ret = TRUE
                      /\ n \in DOMAIN name_to_abi'
                      /\ name_to_abi'[n] = call'.args[2]
                      /\ call'.args[1] \in DOMAIN code_hash_to_abi'
                      /\ code_hash_to_abi'[call'.args[1]] = call'.args[2]
                      /\ call'.caller \in DOMAIN account_to_code_hash_list'
                      /\ \A a \in AccountId :
                            a = call'.caller
                                => ListEntry(a)' = Append(ListEntry(a), call'.args[1])]_vars

\* C13 witness: a caller that already has a code-hash list registers a
\* second abi, under another code hash.
C13_Witness ==
    /\ call.op = "register_abi" /\ call.ret
    /\ call.caller \in DOMAIN account_to_code_hash_list
    /\ Len(account_to_code_hash_list[call.caller]) = 2
    /\ account_to_code_hash_list[call.caller][1] # account_to_code_hash_list[call.caller][2]
    /\ account_to_code_hash_list[call.caller][2] = call.args[1]
    /\ name_to_abi[call.name] = call.args[2]
    /\ code_hash_to_abi[call.args[1]] = call.args[2]

\* C14: ABI records are write-once.  An abi stored under a name key or under
\* a code-hash key is never changed or removed by a later call, so
\* get_abi_by_name and get_abi_by_code_hash keep returning the same bytes.
C14_AbiWriteOnce ==
    [][/\ \A n \in Hash :
             n \in DOMAIN name_to_abi
                 => /\ n \in DOMAIN name_to_abi'
                    /\ name_to_abi'[n] = name_to_abi[n]
                    /\ get_abi_by_name(n)' = get_abi_by_name(n)
       /\ \A h \in Hash :
             h \in DOMAIN code_hash_to_abi
                 => /\ h \in DOMAIN code_hash_to_abi'
                    /\ code_hash_to_abi'[h] = code_hash_to_abi[h]
                    /\ get_abi_by_code_hash(h)' = get_abi_by_code_hash(h)]_vars

AbiMaps == <<name_to_abi, code_hash_to_abi, account_to_code_hash_list>>

\* C15: lifecycle frame.  Once a name has an owner entry its address entry is
\* changed only by set_address and its owner entry only by transfer;
\* set_address leaves the owner map unchanged, transfer the address map,
\* register_abi both, and register, set_address and transfer leave the three
\* ABI maps unchanged.
C15_LifecycleFrame ==
    [][/\ \A n \in Hash :
             HasOwner(n)
                 => /\ AddressEntry(n)' # AddressEntry(n)
                          => (call'.op = "set_address" /\ call'.name = n)
                    /\ OwnerEntry(n)' # OwnerEntry(n)
                          => (call'.op = "transfer" /\ call'.name = n)
       /\ call'.op = "set_address" => name_to_owner' = name_to_owner
       /\ call'.op = "transfer" => name_to_address' = name_to_address
       /\ call'.op = "register_abi"
             => (name_to_owner' = name_to_owner /\ name_to_address' = name_to_address)
       /\ call'.op \in {"register", "set_address", "transfer"}
             => AbiMaps' = AbiMaps]_vars

\* C15 witness: a name with a stored abi is registered and then transferred;
\* the transfer leaves its address and the abi where they were.
C15_Witness ==
    /\ Len(events) = 3
    /\ events[1].kind = "RegisterAbi" /\ events[2].kind = "Register"
    /\ events[1].name = events[2].name /\ call.name = events[2].name
    /\ call.op = "transfer" /\ call.ret /\ call.caller = alice
    /\ name_to_owner[call.name] = bob
    /\ name_to_address[call.name] = bob
    /\ name_to_abi[call.name] = events[1].abi

\* Account a has had a register_abi return true.
HasRegisteredAbi(a) ==
    \E i \in 1..Len(events) : events[i].kind = "RegisterAbi" /\ events[i].from = a

\* C16: the code-hash list is append-only.  For every account a the list
\* get_code_hash_list_by_account(a) is empty until a's first successful
\* register_abi; in every step it stays the same or gains exactly one element
\* at the end, the code hash of a successful register_abi by a (duplicates
\* included), so an earlier list is a prefix of every later one, and calls by
\* other accounts never change it.
C16_CodeHashListAppendOnly ==
    /\ [](\A a \in AccountId :
             ~HasRegisteredAbi(a) => get_code_hash_list_by_account(a) = <<>>)
    /\ [][\A a \in AccountId :
             IF call'.op = "register_abi" /\ call'.ret /\ call'.caller = a
             THEN get_code_hash_list_by_account(a)' =
                      Append(get_code_hash_list_by_account(a), call'.args[1])
             ELSE get_code_hash_list_by_account(a)' =
                      get_code_hash_list_by_account(a)]_vars

\* C16 witness: alice has registered the same code hash twice and bob
\* another one in between; each list holds its own hashes in order.
C16_Witness ==
    /\ Len(events) = 3
    /\ events[1].from = alice /\ events[2].from = bob /\ events[3].from = alice
    /\ call.op = "register_abi" /\ call.ret /\ call.caller = alice
    /\ get_code_hash_list_by_account(alice) = <<1, 1>>
    /\ get_code_hash_list_by_account(bob) = <<2>>
    /\ get_code_hash_list_by_account(ZeroAccount) = <<>>

\* C17: register_abi does not claim the name.  After register_abi(n, ...)
\* returned true is_name_exist(n) is still false; as long as n has no owner
\* entry every register_abi and every register of n, by any caller, returns
\* true; register_abi of n returns false only once n has an owner entry.
C17_RegisterAbiDoesNotClaim ==
    [][\A n \in Hash :
          /\ (call'.op = "register_abi" /\ call'.name = n /\ call'.ret)
                => (is_name_exist(n)' = FALSE /\ ~HasOwner(n)')
          /\ (call'.op \in {"register_abi", "register"} /\ call'.name = n /\ ~HasOwner(n))
                => call'.ret = TRUE
          /\ (call'.op = "register_abi" /\ call'.name = n /\ ~call'.ret)
                => HasOwner(n)]_vars

\* C17 witness: two callers register an abi for the same name, one after the
\* other, and a third then registers the name itself.
C17_Witness ==
    /\ Len(events) = 3
    /\ events[1].kind = "RegisterAbi" /\ events[2].kind = "RegisterAbi"
    /\ events[3].kind = "Register"
    /\ events[1].name = call.name /\ events[2].name = call.name
    /\ events[1].from # events[2].from /\ events[2].from # events[3].from
    /\ events[1].from # events[3].from
    /\ events[1].code_hash # events[2].code_hash
    /\ call.op = "register" /\ call.ret
    /\ is_name_exist(call.name)

\* C18: owner and address entries come in pairs.  When the default identity
\* makes no call, the names with an owner entry are the names with an address
\* entry, every SetAddress event carries a present old_address and every
\* Transfer event a present old_owner equal to its 'from'.
C18_EntriesInPairs ==
    /\ DOMAIN name_to_owner = DOMAIN name_to_address
    /\ \A i \in 1..Len(events) :
          /\ events[i].kind = "SetAddress" => events[i].old_address # None
          /\ events[i].kind = "Transfer" => events[i].old_owner = Some(events[i].from)

\* C18 witness: a name is registered, its address set and its owner changed,
\* all by real callers; both entries exist and both events carry old values.
C18_Witness ==
    /\ Len(events) = 3
    /\ events[1].kind = "Register" /\ events[2].kind = "SetAddress"
    /\ events[3].kind = "Transfer"
    /\ Len(events[2].old_address) = 1
    /\ events[3].old_owner = Some(events[1].from)
    /\ DOMAIN name_to_owner = {events[1].name}
    /\ DOMAIN name_to_address = {events[1].name}

\* The Transfer events of name n, as positions in the log.
TransfersOf(n) ==
    {i \in 1..Len(events) : events[i].kind = "Transfer" /\ events[i].name = n}

\* A transfer of n to the default address has returned true.
EverLocked(n) == \E i \in TransfersOf(n) : events[i].new_owner = ZeroAccount

\* The last successful transfer of n was one to the default address.
LockedNow(n) ==
    \E i \in TransfersOf(n) :
        /\ events[i].new_owner = ZeroAccount
        /\ \A j \in TransfersOf(n) : j <= i

\* C19 as stated: transfer to the default address locks the name.  After a
\* successful transfer(n, default address), in all later states
\* is_name_exist(n) is true, register(n, _) returns false for every caller and
\* set_address(n, _) and transfer(n, _) by any caller other than the default
\* identity return false.
C19_TransferToDefaultLocks ==
    [][\A n \in Hash :
          EverLocked(n)
              => /\ is_name_exist(n)' = TRUE
                 /\ (call'.name = n /\ call'.op = "register") => call'.ret = FALSE
                 /\ (call'.name = n /\ call'.op \in {"set_address", "transfer"}
                        /\ call'.caller # ZeroAccount) => call'.ret = FALSE]_vars

\* C19 amended: after a successful transfer(n, default address),
\* is_name_exist(n) stays true and register(n, _) returns false for every
\* caller in all later states; set_address(n, _) and transfer(n, _) by any
\* caller other than the default identity return false until the default
\* identity itself transfers the name to another address.
C19_LockedUntilDefaultTransfers ==
    [][\A n \in Hash :
          /\ EverLocked(n)
                => /\ is_name_exist(n)' = TRUE
                   /\ HasOwner(n)'
                   /\ (call'.name = n /\ call'.op = "register") => call'.ret = FALSE
          /\ LockedNow(n)
                => /\ (call'.name = n /\ call'.op \in {"set_address", "transfer"}
                          /\ call'.caller # ZeroAccount) => call'.ret = FALSE
                   /\ (call'.name = n /\ call'.op = "transfer" /\ call'.ret)
                         => call'.caller = ZeroAccount]_vars

\* C19 witness: alice registers a name and transfers it to the default
\* address; her next set_address on it is refused and the name still exists.
C19_Witness ==
    /\ Len(events) = 2
    /\ events[1].kind = "Register" /\ events[1].from = alice
    /\ events[2].kind = "Transfer" /\ events[2].from = alice
    /\ events[2].new_owner = ZeroAccount
    /\ LockedNow(call.name)
    /\ call.op = "set_address" /\ call.caller = alice /\ ~call.ret
    /\ is_name_exist(call.name)

AbiEntry(n) == IF n \in DOMAIN name_to_abi THEN <<name_to_abi[n]>> ELSE <<>>

\* C20: per-name isolation.  A call of register, set_address, transfer or
\* register_abi with name argument n, whether it returns true or false,
\* leaves the owner entry, the address entry and the abi-by-name entry of
\* every other name m unchanged, and get_address(m) and is_name_exist(m)
\* return the same before and after it.
C20_PerNameIsolation ==
    [][\A n \in Hash : \A m \in Hash \ {n} :
          (call'.name = n
              /\ call'.op \in {"register", "set_address", "transfer", "register_abi"})
              => /\ OwnerEntry(m)' = OwnerEntry(m)
                 /\ AddressEntry(m)' = AddressEntry(m)
                 /\ AbiEntry(m)' = AbiEntry(m)
                 /\ get_address(m)' = get_address(m)
                 /\ is_name_exist(m)' = is_name_exist(m)]_vars

\* C20 witness: one name has an abi, an owner and an address; a register of
\* the other name returns true and the first name's three entries are as stored.
C20_Witness ==
    /\ Len(events) = 3
    /\ events[1].kind = "RegisterAbi" /\ events[2].kind = "Register"
    /\ events[1].name = events[2].name
    /\ events[3].name # events[2].name
    /\ call.ret /\ call.name = events[3].name /\ call.op = "register"
    /\ OwnerEntry(events[2].name) = <<events[2].from>>
    /\ AddressEntry(events[2].name) = <<bob>>
    /\ AbiEntry(events[2].name) = <<events[1].abi>>
    /\ is_name_exist(call.name) /\ is_name_exist(events[2].name)

====
